---- MODULE Spec2Model ----
(***************************************************************************)
(* Number mnemonics: the cipher table, the word encoder and index          *)
(* (process_words) and the phrase search (generate_mnemonic) of            *)
(* mnemonic_generator.py (role-aware) and mnemonics.py (role-agnostic).    *)
(*                                                                         *)
(* A Python str is a sequence of one-character strings; "sup2" stands for  *)
(* the single character U+00B2 (superscript two), for which str.isdigit()  *)
(* is True although it is not a decimal digit.  None is the empty tuple    *)
(* and a returned str s is the one-element tuple <<s>>.                    *)
(***************************************************************************)
EXTENDS Integers, Sequences, FiniteSets, TLC

VARIABLES words, classify, number, max_words, use_fillers,
          module, df, pc, todo, result, logged, examined

vars == <<words, classify, number, max_words, use_fillers,
          module, df, pc, todo, result, logged, examined>>

(***************************************************************************)
(* Bounds of the model.                                                    *)
(***************************************************************************)
MaxListLen == 3
MaxNumLen == 4
MaxIndexListLen == 2
MaxIndexNumLen == 2
MaxOrderNumLen == 4
MaxFillerNumLen == 3

(***************************************************************************)
(* Python helpers.                                                         *)
(***************************************************************************)
Min(a, b) == IF a < b THEN a ELSE b

Max(a, b) == IF a < b THEN b ELSE a

\* range(a, b) as the sequence a, a+1, ..., b-1
Range(a, b) == [x \in 1..Max(0, b - a) |-> a + x - 1]

\* s[a:b] for 0 <= a, with Python's clamping of the stop index
Slice(s, a, b) == SubSeq(s, a + 1, Min(b, Len(s)))

RECURSIVE Flatten(_)
Flatten(ss) == IF ss = <<>> THEN <<>> ELSE Head(ss) \o Flatten(Tail(ss))

Elems(s) == {s[x] : x \in 1..Len(s)}

None == <<>>

Some(s) == <<s>>

NoPos == "None"

\* str(num) for a digit 0..9
DigitStr(num) == <<"0", "1", "2", "3", "4", "5", "6", "7", "8", "9">>[num + 1]

DecimalDigits == {DigitStr(d) : d \in 0..9}

\* str.isdigit(): non-empty and every character has the Unicode digit property
isdigit(s) == Len(s) > 0 /\ \A x \in 1..Len(s) : s[x] \in DecimalDigits \cup {"sup2"}

(***************************************************************************)
(* Constants of the program.                                               *)
(***************************************************************************)
\* the table with th entered as two letters under 8
CIPHER_split_th ==
  [d \in 0..9 |->
     CASE d = 0 -> << <<"z">>, <<"s">>, <<"c">> >>
       [] d = 1 -> << <<"d">>, <<"t">> >>
       [] d = 2 -> << <<"n">> >>
       [] d = 3 -> << <<"m">> >>
       [] d = 4 -> << <<"r">> >>
       [] d = 5 -> << <<"l">> >>
       [] d = 6 -> << <<"j">>, <<"s", "h">>, <<"c", "h">>, <<"g">> >>
       [] d = 7 -> << <<"k">>, <<"c">>, <<"g">>, <<"q">>, <<"q", "u">> >>
       [] d = 8 -> << <<"f">>, <<"v">>, <<"t">>, <<"h">> >>
       [] d = 9 -> << <<"b">>, <<"p">> >>]

CIPHER ==
  [d \in 0..9 |->
     CASE d = 0 -> << <<"z">>, <<"s">>, <<"c">> >>
       [] d = 1 -> << <<"d">>, <<"t">> >>
       [] d = 2 -> << <<"n">> >>
       [] d = 3 -> << <<"m">> >>
       [] d = 4 -> << <<"r">> >>
       [] d = 5 -> << <<"l">> >>
       [] d = 6 -> << <<"j">>, <<"s", "h">>, <<"c", "h">>, <<"g">> >>
       [] d = 7 -> << <<"k">>, <<"c">>, <<"g">>, <<"q">>, <<"q", "u">> >>
       [] d = 8 -> << <<"f">>, <<"v">>, <<"t", "h">> >>
       [] d = 9 -> << <<"b">>, <<"p">> >>]

VOWELS == {"a", "e", "i", "o", "u"}

DIGRAPHS == { <<"s", "h">>, <<"c", "h">>, <<"t", "h">>, <<"q", "u">> }

FILLER == <<"t", "h", "e">>

SPACE == <<" ">>

(***************************************************************************)
(* Word encoder.                                                           *)
(***************************************************************************)
\* df["word"].str.replace(VOWELS, "", regex=True)
strip_vowels(word) == SelectSeq(word, LAMBDA c : c \notin VOWELS)

\* the left-to-right scan of map_to_numbers from position i: the consonants
\* (graphemes) it consumes, two characters for sh, ch, th, qu
RECURSIVE graphemes(_, _)
graphemes(word, i) ==
  IF ~(i < Len(word)) THEN <<>>
  ELSE IF i < Len(word) - 1 /\ Slice(word, i, i + 2) \in DIGRAPHS
       THEN <<Slice(word, i, i + 2)>> \o graphemes(word, i + 2)
       ELSE << <<word[i + 1]>> >> \o graphemes(word, i + 1)

\* for num, letters in cipher.items(): the first digit listing the consonant
\* is appended; the for-else appends "" for a consonant no digit lists
cipher_lookup(consonant) ==
  LET hits == {num \in DOMAIN CIPHER : consonant \in Elems(CIPHER[num])}
  IN  IF hits # {}
      THEN <<DigitStr(CHOOSE num \in hits : \A o \in hits : num <= o)>>
      ELSE <<>>

map_to_numbers(word) ==
  LET gs == graphemes(word, 0)
  IN  Flatten([x \in 1..Len(gs) |-> cipher_lookup(gs[x])])

\* Series.str.match(r"^\d+$")
match_digits(s) == Len(s) > 0 /\ \A x \in 1..Len(s) : s[x] \in DecimalDigits

(***************************************************************************)
(* Word index.                                                             *)
(***************************************************************************)
\* one row of the role-aware frame
row(word, pos) ==
  [word |-> word,
   no_vowels |-> strip_vowels(word),
   number_sequence |-> map_to_numbers(strip_vowels(word)),
   word_length |-> Len(word),
   no_vowels_length |-> Len(strip_vowels(word)),
   pos |-> pos]

\* the filter of mnemonic_generator.process_words
keep_row(r) == match_digits(r.number_sequence) /\ r.pos # NoPos

\* one row of the role-agnostic frame (no pos column)
plain_row(word) ==
  [word |-> word,
   no_vowels |-> strip_vowels(word),
   number_sequence |-> map_to_numbers(strip_vowels(word)),
   word_length |-> Len(word),
   no_vowels_length |-> Len(strip_vowels(word))]

\* the filter of mnemonics.process_words
keep_plain_row(r) == match_digits(r.number_sequence)

(***************************************************************************)
(* Phrase search, role-aware (mnemonic_generator.generate_mnemonic).       *)
(***************************************************************************)
\* the lookup with the number_sequence condition left out
matches_any_sequence(frame, seq, pos) ==
  LET hit == SelectSeq(frame, LAMBDA r : r.pos = pos)
  IN  [x \in 1..Len(hit) |-> hit[x].word]

\* df[(df["number_sequence"] == seq) & (df["pos"] == pos)]["word"].tolist()
matches(frame, seq, pos) ==
  LET hit == SelectSeq(frame, LAMBDA r : r.number_sequence = seq /\ r.pos = pos)
  IN  [x \in 1..Len(hit) |-> hit[x].word]

\* words == 1: the candidates for the whole number
one_word_matches(frame, num) == <<matches(frame, num, "noun")>>

\* the two-word lookup with the second piece taken as number[i+1:]
two_word_matches_gap(frame, num, i) ==
  <<matches(frame, Slice(num, 0, i), "adj"),
    matches(frame, Slice(num, i + 1, Len(num)), "noun")>>

\* words == 2: the candidates for number[:i] and number[i:]
two_word_matches(frame, num, i) ==
  <<matches(frame, Slice(num, 0, i), "adj"),
    matches(frame, Slice(num, i, Len(num)), "noun")>>

\* words == 3: the candidates for number[:i], number[i:j] and number[j:]
three_word_matches(frame, num, i, j) ==
  <<matches(frame, Slice(num, 0, i), "adj"),
    matches(frame, Slice(num, i, j), "noun"),
    matches(frame, Slice(num, j, Len(num)), "verb")>>

\* the loop nest with the inner three-word loop as range(i + 1, n - 1)
iterations_short(n, mw) ==
  LET ws == Range(1, Min(mw + 1, n + 1))
      body(w) ==
        IF w = 1 THEN << <<1, 0, 0>> >>
        ELSE IF w = 2 THEN [x \in 1..Len(Range(1, n)) |-> <<2, Range(1, n)[x], 0>>]
        ELSE IF w = 3
        THEN Flatten([x \in 1..Len(Range(1, n - 1)) |->
               LET i == Range(1, n - 1)[x]
               IN  [y \in 1..Len(Range(i + 1, n - 1)) |->
                      <<3, i, Range(i + 1, n - 1)[y]>>]])
        ELSE << <<w, 0, 0>> >>
  IN  Flatten([x \in 1..Len(ws) |-> body(ws[x])])

\* the loop nest with the word counts tried from the largest down
iterations_longest_first(n, mw) ==
  LET ws == Range(1, Min(mw + 1, n + 1))
      body(w) ==
        IF w = 1 THEN << <<1, 0, 0>> >>
        ELSE IF w = 2 THEN [x \in 1..Len(Range(1, n)) |-> <<2, Range(1, n)[x], 0>>]
        ELSE IF w = 3
        THEN Flatten([x \in 1..Len(Range(1, n - 1)) |->
               LET i == Range(1, n - 1)[x]
               IN  [y \in 1..Len(Range(i + 1, n)) |-> <<3, i, Range(i + 1, n)[y]>>]])
        ELSE << <<w, 0, 0>> >>
  IN  Flatten([x \in 1..Len(ws) |-> body(ws[Len(ws) + 1 - x])])

\* the loop nest with the split points i tried from the largest down
iterations_descending(n, mw) ==
  LET ws == Range(1, Min(mw + 1, n + 1))
      body(w) ==
        IF w = 1 THEN << <<1, 0, 0>> >>
        ELSE IF w = 2 THEN [x \in 1..Len(Range(1, n)) |-> <<2, n - Range(1, n)[x], 0>>]
        ELSE IF w = 3
        THEN Flatten([x \in 1..Len(Range(1, n - 1)) |->
               LET i == n - 1 - Range(1, n - 1)[x]
               IN  [y \in 1..Len(Range(i + 1, n)) |-> <<3, i, Range(i + 1, n)[y]>>]])
        ELSE << <<w, 0, 0>> >>
  IN  Flatten([x \in 1..Len(ws) |-> body(ws[x])])

\* the loop nest as the sequence of its body executions <<words, i, j>>
\* (i, j are 0 where the code has no such loop variable); a word count
\* above 3 runs the body of the outer loop with no branch taken
iterations(n, mw) ==
  LET ws == Range(1, Min(mw + 1, n + 1))
      body(w) ==
        IF w = 1 THEN << <<1, 0, 0>> >>
        ELSE IF w = 2 THEN [x \in 1..Len(Range(1, n)) |-> <<2, Range(1, n)[x], 0>>]
        ELSE IF w = 3
        THEN Flatten([x \in 1..Len(Range(1, n - 1)) |->
               LET i == Range(1, n - 1)[x]
               IN  [y \in 1..Len(Range(i + 1, n)) |-> <<3, i, Range(i + 1, n)[y]>>]])
        ELSE << <<w, 0, 0>> >>
  IN  Flatten([x \in 1..Len(ws) |-> body(ws[x])])

\* f"the {adj} {noun} {verb}" if use_fillers else f"{adj} {noun} {verb}"
RECURSIVE join(_)
join(ws) ==
  IF Len(ws) = 0 THEN <<>>
  ELSE IF Len(ws) = 1 THEN ws[1]
  ELSE ws[1] \o SPACE \o join(Tail(ws))

\* the phrase with the space after the filler left out
phrase_no_space(ws, fillers) == IF fillers THEN FILLER \o join(ws) ELSE join(ws)

phrase(ws, fillers) == IF fillers THEN join(<<FILLER>> \o ws) ELSE join(ws)

\* all choices random.choice can make, one per candidate list
choices(cands) ==
  LET longest == CHOOSE m \in {Len(cands[x]) : x \in 1..Len(cands)} :
                   \A x \in 1..Len(cands) : Len(cands[x]) <= m
  IN  {c \in [1..Len(cands) -> 1..longest] :
         \A x \in 1..Len(cands) : c[x] <= Len(cands[x])}

picked(cands, c) == [x \in 1..Len(cands) |-> cands[x][c[x]]]

(***************************************************************************)
(* Phrase search, role-agnostic (mnemonics.generate_mnemonic).             *)
(***************************************************************************)
\* df[df["number_sequence"] == seq]["word"].tolist()
plain_matches(frame, seq) ==
  LET hit == SelectSeq(frame, LAMBDA r : r.number_sequence = seq)
  IN  [x \in 1..Len(hit) |-> hit[x].word]

\* for words in range(1, min(max_words + 1, n + 1)):
\*   for i in range(n - words + 1):
\*     for j in range(i + 1, n - words + 2):
plain_iterations(n, mw) ==
  LET ws == Range(1, Min(mw + 1, n + 1))
      body(w) ==
        Flatten([x \in 1..Len(Range(0, n - w + 1)) |->
          LET i == Range(0, n - w + 1)[x]
          IN  [y \in 1..Len(Range(i + 1, n - w + 2)) |->
                 <<w, i, Range(i + 1, n - w + 2)[y]>>]])
  IN  Flatten([x \in 1..Len(ws) |-> body(ws[x])])

\* the candidate lists the body looks up at <<w, i, j>>; none when words > 3
plain_body_matches(frame, num, it) ==
  IF it[1] = 1 THEN <<plain_matches(frame, num)>>
  ELSE IF it[1] = 2
  THEN <<plain_matches(frame, Slice(num, 0, it[2])),
         plain_matches(frame, Slice(num, it[2], Len(num)))>>
  ELSE IF it[1] = 3
  THEN <<plain_matches(frame, Slice(num, 0, it[2])),
         plain_matches(frame, Slice(num, it[2], it[3])),
         plain_matches(frame, Slice(num, it[3], Len(num)))>>
  ELSE <<>>

(***************************************************************************)
(* Inputs: word lists, classifiers and call arguments.                     *)
(***************************************************************************)
W_do == <<"d", "o">>

W_no == <<"n", "o">>

W_ten == <<"t", "e", "n">>

W_what == <<"w", "h", "a", "t">>

W_why == <<"w", "h", "y">>

W_both == <<"b", "o", "t", "h">>

W_cat == <<"c", "a", "t">>

W_she == <<"s", "h", "e">>

W_yes == <<"y", "e", "s">>

W_big == <<"b", "i", "g">>

W_dog == <<"d", "o", "g">>

W_run == <<"r", "u", "n">>

W_red == <<"r", "e", "d">>

W_jump == <<"j", "u", "m", "p">>

\* words for the search: codes 1, 2 and 12
Vocabulary == <<W_do, W_no, W_ten>>

\* words for the encoder: wht, why, bth, ct, sh, ys
IndexVocabulary == <<W_what, W_why, W_both, W_cat, W_she, W_yes>>

W_to == <<"t", "o">>

W_tea == <<"t", "e", "a">>

W_dad == <<"d", "a", "d">>

W_dot == <<"d", "o", "t">>

W_the == <<"t", "h", "e">>

\* words for the filler: codes 8, 1, 1 and 11, the first spelt like the filler
FillerWords == <<W_the, W_do, W_to, W_dad>>

\* words for the split order: codes 1, 1, 1, 11 and 11
OrderWords == <<W_do, W_to, W_tea, W_dad, W_dot>>

\* sample_words of setup_test_data
SampleWords == <<W_big, W_dog, W_run, W_red, W_cat, W_jump>>

\* what get_part_of_speech can return
ROLES == {"adj", "noun", "verb"}

POS == ROLES \cup {NoPos}

\* the word lists of at most maxlen words of vocab, repetitions allowed, in
\* vocabulary order (the order of the rows only orders the candidate lists
\* random.choice draws from)
WordLists(vocab, maxlen) ==
  LET idx == UNION {[1..m -> 1..Len(vocab)] : m \in 0..maxlen}
      up  == {s \in idx : \A x \in 1..Len(s) - 1 : s[x] <= s[x + 1]}
  IN  {[x \in 1..Len(s) |-> vocab[s[x]]] : s \in up}

\* the strings of 1..maxlen characters over chars
Strings(chars, maxlen) == UNION {[1..m -> chars] : m \in 1..maxlen}

\* arguments str.isdigit() rejects, and two it accepts that are not decimal
InvalidNumbers ==
  { <<>>, <<"a">>, <<"1", "2", "a", "3">>, <<"sup2">>, <<"1", "sup2">> }

MaxWordsArgs == 0..4

TestNumbers ==
  { <<"9">>, <<"1", "2">>, <<"1", "2", "3">>, <<"1", "2", "a", "3">>,
    <<"9", "9", "9", "9", "9", "9">> }

InitState ==
  /\ module = "none"
  /\ df = <<>>
  /\ pc = "start"
  /\ todo = <<>>
  /\ result = None
  /\ logged = "none"
  /\ examined = <<>>

Init ==
  /\ words \in WordLists(Vocabulary, MaxListLen)
  /\ classify \in [Elems(words) -> POS]
  /\ number \in Strings({"1", "2"}, MaxNumLen) \cup InvalidNumbers
  /\ max_words \in MaxWordsArgs
  /\ use_fillers \in BOOLEAN
  /\ InitState

\* mnemonics.py calls no classifier and has no use_fillers argument
InitPlain ==
  /\ words \in WordLists(Vocabulary, MaxListLen)
  /\ classify = [w \in Elems(words) |-> NoPos]
  /\ number \in Strings({"1", "2"}, MaxNumLen) \cup InvalidNumbers
  /\ max_words \in MaxWordsArgs
  /\ use_fillers = FALSE
  /\ InitState

\* every index over OrderWords (a word classified None is left out), and
\* numbers that split in several ways
InitOrder ==
  /\ words = OrderWords
  /\ classify \in [Elems(words) -> POS]
  /\ number \in Strings({"1"}, MaxOrderNumLen)
  /\ max_words \in {2, 3}
  /\ use_fillers \in BOOLEAN
  /\ InitState

\* every index over FillerWords, with and without fillers
InitFiller ==
  /\ words = FillerWords
  /\ classify \in [Elems(words) -> POS]
  /\ number \in Strings({"1", "8"}, MaxFillerNumLen)
  /\ max_words \in 1..3
  /\ use_fillers \in BOOLEAN
  /\ InitState

InitIndex ==
  /\ words \in WordLists(IndexVocabulary, MaxIndexListLen)
  /\ classify \in [Elems(words) -> POS]
  /\ number \in Strings({"0", "1"}, MaxIndexNumLen)
  /\ max_words = 3
  /\ use_fillers = TRUE
  /\ InitState

\* test_mnemonics.py: the sample index with a role for every word, default
\* max_words and use_fillers
InitSample ==
  /\ words = SampleWords
  /\ classify \in [Elems(words) -> ROLES]
  /\ number \in TestNumbers
  /\ max_words = 3
  /\ use_fillers = TRUE
  /\ InitState

(***************************************************************************)
(* Operations.                                                             *)
(***************************************************************************)
process_words ==
  /\ pc = "start"
  /\ module' = "mnemonic_generator"
  /\ df' = SelectSeq([x \in 1..Len(words) |-> row(words[x], classify[words[x]])],
                     keep_row)
  /\ pc' = "ready"
  /\ UNCHANGED <<words, classify, number, max_words, use_fillers,
                 todo, result, logged, examined>>

plain_process_words ==
  /\ pc = "start"
  /\ module' = "mnemonics"
  /\ df' = SelectSeq([x \in 1..Len(words) |-> plain_row(words[x])], keep_plain_row)
  /\ pc' = "ready"
  /\ UNCHANGED <<words, classify, number, max_words, use_fillers,
                 todo, result, logged, examined>>

\* entry of either generate_mnemonic: the isdigit check, then the loop nest,
\* whose ranges are fixed by n and max_words
enter(its) ==
  IF ~isdigit(number)
  THEN /\ logged' = "error"
       /\ result' = None
       /\ pc' = "done"
       /\ todo' = todo
  ELSE /\ logged' = logged
       /\ result' = result
       /\ pc' = "loop"
       /\ todo' = its

generate_mnemonic ==
  /\ pc = "ready"
  /\ module = "mnemonic_generator"
  /\ enter(iterations(Len(number), max_words))
  /\ UNCHANGED <<words, classify, number, max_words, use_fillers,
                 module, df, examined>>

\* one execution of the loop body: look the pieces up, return on a full match
try(cands, fillers) ==
  /\ examined' = Append(examined, Head(todo))
  /\ IF \A x \in 1..Len(cands) : cands[x] # <<>>
     THEN /\ \E c \in choices(cands) :
               result' = Some(phrase(picked(cands, c), fillers))
          /\ pc' = "done"
          /\ todo' = todo
     ELSE /\ result' = result
          /\ pc' = pc
          /\ todo' = Tail(todo)

\* a word count with no branch in the body
skip ==
  /\ todo' = Tail(todo)
  /\ UNCHANGED <<result, pc, examined>>

generate_mnemonic_body ==
  /\ pc = "loop"
  /\ module = "mnemonic_generator"
  /\ todo # <<>>
  /\ IF Head(todo)[1] = 1
     THEN try(one_word_matches(df, number), use_fillers)
     ELSE IF Head(todo)[1] = 2
     THEN try(two_word_matches(df, number, Head(todo)[2]), use_fillers)
     ELSE IF Head(todo)[1] = 3
     THEN try(three_word_matches(df, number, Head(todo)[2], Head(todo)[3]),
              use_fillers)
     ELSE skip
  /\ UNCHANGED <<words, classify, number, max_words, use_fillers,
                 module, df, logged>>

\* after the loop nest: logging.warning, return None
no_match ==
  /\ logged' = "warning"
  /\ result' = None
  /\ pc' = "done"

generate_mnemonic_no_match ==
  /\ pc = "loop"
  /\ module = "mnemonic_generator"
  /\ todo = <<>>
  /\ no_match
  /\ UNCHANGED <<words, classify, number, max_words, use_fillers,
                 module, df, todo, examined>>

plain_generate_mnemonic ==
  /\ pc = "ready"
  /\ module = "mnemonics"
  /\ enter(plain_iterations(Len(number), max_words))
  /\ UNCHANGED <<words, classify, number, max_words, use_fillers,
                 module, df, examined>>

plain_generate_mnemonic_body ==
  /\ pc = "loop"
  /\ module = "mnemonics"
  /\ todo # <<>>
  /\ IF Head(todo)[1] <= 3
     THEN try(plain_body_matches(df, number, Head(todo)), FALSE)
     ELSE skip
  /\ UNCHANGED <<words, classify, number, max_words, use_fillers,
                 module, df, logged>>

plain_generate_mnemonic_no_match ==
  /\ pc = "loop"
  /\ module = "mnemonics"
  /\ todo = <<>>
  /\ no_match
  /\ UNCHANGED <<words, classify, number, max_words, use_fillers,
                 module, df, todo, examined>>

Next ==
  \/ process_words
  \/ generate_mnemonic
  \/ generate_mnemonic_body
  \/ generate_mnemonic_no_match

PlainNext ==
  \/ plain_process_words
  \/ plain_generate_mnemonic
  \/ plain_generate_mnemonic_body
  \/ plain_generate_mnemonic_no_match

Spec == Init /\ [][Next]_vars

SpecPlain == InitPlain /\ [][PlainNext]_vars

SpecIndex == InitIndex /\ [][Next \/ PlainNext]_vars

SpecSample == InitSample /\ [][Next]_vars

SpecOrder == InitOrder /\ [][Next]_vars

SpecFiller == InitFiller /\ [][Next]_vars

(***************************************************************************)
(* Vocabulary of the properties.                                           *)
(***************************************************************************)
\* str.split(): the maximal runs of non-space characters
RECURSIVE split(_)
split(s) ==
  IF s = <<>> THEN <<>>
  ELSE IF Head(s) = " " THEN split(Tail(s))
  ELSE LET stop == CHOOSE x \in 2..Len(s) + 1 :
                     /\ x = Len(s) + 1 \/ s[x] = " "
                     /\ \A y \in 2..x - 1 : s[y] # " "
       IN  <<SubSeq(s, 1, stop - 1)>> \o split(SubSeq(s, stop, Len(s)))

Returned(mod) == pc = "done" /\ module = mod

\* the content words of the returned phrase: its tokens without the filler
ContentWords ==
  IF use_fillers /\ module = "mnemonic_generator"
  THEN Tail(split(result[1]))
  ELSE split(result[1])

\* the role the template asks of word x of a phrase of kk words
RoleAt(kk, x) == IF kk = 1 THEN "noun" ELSE <<"adj", "noun", "verb">>[x]

\* the ways to cut 0..n into kk non-empty contiguous pieces
Cuts(n, kk) ==
  {c \in [0..kk -> 0..n] :
     c[0] = 0 /\ c[kk] = n /\ \A x \in 1..kk : c[x - 1] < c[x]}

Piece(c, x) == SubSeq(number, c[x - 1] + 1, c[x])

Indexed(seq, pos) ==
  \E r \in 1..Len(df) : df[r].number_sequence = seq /\ df[r].pos = pos

IndexedAnyRole(seq) == \E r \in 1..Len(df) : df[r].number_sequence = seq

\* cut c has an index word of the required role for every piece
CutMatches(c, kk) == \A x \in 1..kk : Indexed(Piece(c, x), RoleAt(kk, x))

HasPartition(kk) == \E c \in Cuts(Len(number), kk) : CutMatches(c, kk)

PlainHasPartition(kk) ==
  \E c \in Cuts(Len(number), kk) : \A x \in 1..kk : IndexedAnyRole(Piece(c, x))

WordCounts == 1..Min(max_words, Min(Len(number), 3))

\* the graphemes the table lists, and those it lists under two digits
TableGraphemes == UNION {Elems(CIPHER[d]) : d \in 0..9}

TwiceListed ==
  {g \in TableGraphemes :
     \E d, e \in 0..9 : d # e /\ g \in Elems(CIPHER[d]) /\ g \in Elems(CIPHER[e])}

InTable(g) == g \in TableGraphemes

FullyCovered(r) == \A g \in Elems(graphemes(r.no_vowels, 0)) : InTable(g)

Built == pc # "start"

\* the index stores word w with digit sequence seq
StoredAs(w, seq) == \E r \in 1..Len(df) : df[r].word = w /\ df[r].number_sequence = seq

\* <<w, i, j>> is at or before <<w2, i2, j2>> in the order of the search
NotAfter(a, b) ==
  \/ a[1] < b[1]
  \/ a[1] = b[1] /\ a[2] < b[2]
  \/ a[1] = b[1] /\ a[2] = b[2] /\ a[3] <= b[3]

(***************************************************************************)
(* C1 (as claimed): every word of the index built by process_words has     *)
(* only graphemes of the cipher table in its vowel-stripped skeleton, and  *)
(* so has every word of a returned phrase.                                 *)
(***************************************************************************)
C1_IndexExclusion ==
  /\ Built => \A r \in 1..Len(df) : FullyCovered(df[r])
  /\ (pc = "done" /\ result # None) =>
        \A x \in 1..Len(ContentWords) :
           \A g \in Elems(graphemes(strip_vowels(ContentWords[x]), 0)) : InTable(g)

(***************************************************************************)
(* C2: a phrase returned by the role-aware search is, after its filler,    *)
(* k index words, 1 <= k <= min(max_words, len(number), 3), of the roles   *)
(* noun / adj noun / adj noun verb, whose stored digit sequences           *)
(* concatenate to number.                                                  *)
(***************************************************************************)
C2_RoundTrip ==
  (Returned("mnemonic_generator") /\ result # None) =>
    LET toks == split(result[1])
        ws   == ContentWords
        kk   == Len(ws)
    IN  /\ use_fillers => Head(toks) = FILLER
        /\ kk \in WordCounts
        /\ \E rows \in [1..kk -> 1..Len(df)] :
              /\ \A x \in 1..kk : /\ df[rows[x]].word = ws[x]
                                  /\ df[rows[x]].pos = RoleAt(kk, x)
              /\ Flatten([x \in 1..kk |-> df[rows[x]].number_sequence]) = number

\* C2 witness: a filler and three content words returned for a four-digit number
C2_Witness ==
  /\ Returned("mnemonic_generator")
  /\ result # None
  /\ use_fillers
  /\ Len(split(result[1])) = 4
  /\ Len(number) = 4

(***************************************************************************)
(* C3: for a non-empty all-digit number the role-aware search returns None *)
(* exactly when no cut of number into k pieces, k in                       *)
(* 1..min(max_words, len(number), 3), has an index word of the required    *)
(* role for every piece.                                                   *)
(***************************************************************************)
C3_NoneIffNoPartition ==
  (Returned("mnemonic_generator") /\ match_digits(number)) =>
    (result = None <=> ~ \E kk \in WordCounts : HasPartition(kk))

\* C3 witness: a valid number searched at all three word counts without a match
C3_Witness ==
  /\ Returned("mnemonic_generator")
  /\ match_digits(number)
  /\ result = None
  /\ logged = "warning"
  /\ max_words >= 3
  /\ Len(number) >= 3
  /\ Len(df) >= 3
  /\ Len(examined) >= 4

(***************************************************************************)
(* C4 (as claimed): the role-agnostic search returns a phrase whenever     *)
(* some cut of a valid number into two pieces (max_words >= 2) or three    *)
(* pieces (max_words >= 3) has an index word for every piece.              *)
(***************************************************************************)
C4_PlainEverySplit ==
  (Returned("mnemonics") /\ match_digits(number)) =>
    /\ (max_words >= 2 /\ PlainHasPartition(2)) => result # None
    /\ (max_words >= 3 /\ PlainHasPartition(3)) => result # None

(***************************************************************************)
(* C5: if a matching cut into k words exists within the word counts the    *)
(* search tries, the returned phrase has at most k content words.          *)
(***************************************************************************)
C5_Brevity ==
  (Returned("mnemonic_generator") /\ result # None /\ max_words <= 3) =>
    \A kk \in WordCounts : HasPartition(kk) => Len(ContentWords) <= kk

\* C5 witness: 12 has a one-word and a two-word match and the ten is returned
C5_Witness ==
  /\ Returned("mnemonic_generator")
  /\ number = <<"1", "2">>
  /\ max_words = 3
  /\ HasPartition(1)
  /\ HasPartition(2)
  /\ result = Some(FILLER \o SPACE \o W_ten)

(***************************************************************************)
(* C6: generate_mnemonic returns None when number is empty or holds a      *)
(* character that is not a decimal digit.                                  *)
(***************************************************************************)
C6_InvalidInput ==
  (pc = "done" /\ ~match_digits(number)) => result = None

\* C6 witness: 12a3 against a non-empty index
C6_Witness ==
  /\ pc = "done"
  /\ number = <<"1", "2", "a", "3">>
  /\ result = None
  /\ logged = "error"
  /\ Len(df) > 0

(***************************************************************************)
(* C7 (as claimed): over the index of the six sample words, with default   *)
(* arguments, "9", "12" and "123" each get a phrase: "the ..." for "9", at *)
(* least two tokens for "12", "the" and at least three tokens for "123".   *)
(***************************************************************************)
C7_SamplePhrases ==
  (Returned("mnemonic_generator") /\ words = SampleWords
     /\ max_words = 3 /\ use_fillers) =>
    /\ number = <<"9">> =>
         /\ result # None
         /\ SubSeq(result[1], 1, 4) = FILLER \o SPACE
    /\ number = <<"1", "2">> =>
         /\ result # None
         /\ Len(split(result[1])) >= 2
    /\ number = <<"1", "2", "3">> =>
         /\ result # None
         /\ \E x \in 1..Len(result[1]) - 2 : SubSeq(result[1], x, x + 2) = FILLER
         /\ Len(split(result[1])) >= 3

C9_DigitValidity ==
  Built => \A r \in 1..Len(df) :
             /\ match_digits(df[r].number_sequence)
             /\ Len(df[r].number_sequence) = Len(graphemes(df[r].no_vowels, 0))

(***************************************************************************)
(* C10: a returned two-word phrase matches the pieces of the smallest      *)
(* split point i at which an adjective and a noun match; a returned        *)
(* three-word phrase matches the pieces of the first pair (i, j), i outer  *)
(* and j inner ascending, at which adjective, noun and verb match; that    *)
(* split is the last one examined and none after it in the order is.       *)
(***************************************************************************)
C10_SplitOrder ==
  (Returned("mnemonic_generator") /\ result # None) =>
    LET ws   == ContentWords
        n    == Len(number)
        two  == {c \in Cuts(n, 2) : CutMatches(c, 2)}
        tri  == {c \in Cuts(n, 3) : CutMatches(c, 3)}
        win2 == CHOOSE c \in two : \A o \in two : c[1] <= o[1]
        win3 == CHOOSE c \in tri : \A o \in tri :
                  c[1] < o[1] \/ (c[1] = o[1] /\ c[2] <= o[2])
    IN  /\ Len(ws) = 2 =>
             /\ two # {}
             /\ \A x \in 1..2 : StoredAs(ws[x], Piece(win2, x))
             /\ examined[Len(examined)] = <<2, win2[1], 0>>
             /\ \A x \in 1..Len(examined) : NotAfter(examined[x], <<2, win2[1], 0>>)
        /\ Len(ws) = 3 =>
             /\ tri # {}
             /\ \A x \in 1..3 : StoredAs(ws[x], Piece(win3, x))
             /\ examined[Len(examined)] = <<3, win3[1], win3[2]>>
             /\ \A x \in 1..Len(examined) :
                  NotAfter(examined[x], <<3, win3[1], win3[2]>>)

\* C10 witness: a three-word phrase returned where a later pair (i, j), with
\* a larger i, matches as well
C10_Witness ==
  /\ Returned("mnemonic_generator")
  /\ result # None
  /\ Len(ContentWords) = 3
  /\ \E c, o \in Cuts(Len(number), 3) :
       /\ CutMatches(c, 3) /\ CutMatches(o, 3)
       /\ c[1] < o[1]
       /\ examined[Len(examined)] = <<3, c[1], c[2]>>

(***************************************************************************)
(* The outcome of the search as the index, number and max_words fix it,    *)
(* with no reference to use_fillers.                                       *)
(***************************************************************************)
Matchable == \E kk \in WordCounts : HasPartition(kk)

FirstCount ==
  CHOOSE kk \in WordCounts :
    HasPartition(kk) /\ \A o \in WordCounts : HasPartition(o) => kk <= o

FirstCut ==
  LET good == {c \in Cuts(Len(number), FirstCount) : CutMatches(c, FirstCount)}
      last == Min(2, FirstCount)
  IN  CHOOSE c \in good :
        \A o \in good : c[1] < o[1] \/ (c[1] = o[1] /\ c[last] <= o[last])

\* the body execution <<words, i, j>> that looks FirstCut up
FirstIteration ==
  <<FirstCount,
    IF FirstCount = 1 THEN 0 ELSE FirstCut[1],
    IF FirstCount = 3 THEN FirstCut[2] ELSE 0>>

\* the index words of the required role for each piece of FirstCut
Candidates ==
  [x \in 1..FirstCount |->
     {df[r].word : r \in {q \in 1..Len(df) :
                            /\ df[q].number_sequence = Piece(FirstCut, x)
                            /\ df[q].pos = RoleAt(FirstCount, x)}}]

\* the phrases of one candidate per piece, joined by spaces, without filler
FillerFree ==
  LET cand == Candidates
  IN  {join(ws) : ws \in {w \in [DOMAIN cand -> Elems(words)] :
                            \A x \in DOMAIN cand : w[x] \in cand[x]}}

Prefix == IF use_fillers THEN FILLER \o SPACE ELSE <<>>

(***************************************************************************)
(* C11: the filler is cosmetic.  Whether the search returns None, which    *)
(* split it stops at and which candidates it draws from are fixed by the   *)
(* index, number and max_words alone; the phrases it can return are        *)
(* exactly the filler-free phrases of that split, each with "the " put in  *)
(* front when use_fillers is set and unchanged when it is not.  So the     *)
(* results with fillers are None exactly when those without are, and are   *)
(* exactly { "the " + p }.                                                 *)
(***************************************************************************)
C11_FillerCosmetic ==
  /\ Returned("mnemonic_generator") =>
       /\ result = None <=> ~Matchable
       /\ result # None =>
            /\ result[1] \in {Prefix \o p : p \in FillerFree}
            /\ examined[Len(examined)] = FirstIteration
  /\ (pc = "loop" /\ module = "mnemonic_generator" /\ todo # <<>>) =>
       ((Matchable /\ Head(todo) = FirstIteration) =>
          LET free == FillerFree
          IN  \A p \in free :
                 ENABLED (generate_mnemonic_body /\ result' = Some(Prefix \o p)))

\* C11 witness: the index holds the word the as an adjective; 81 has no
\* one-word match, two nouns match its second piece, and the the do or
\* the the to is returned with the filler
C11_Witness ==
  /\ Returned("mnemonic_generator")
  /\ use_fillers
  /\ number = <<"8", "1">>
  /\ result # None
  /\ Cardinality(FillerFree) = 2
  /\ ContentWords[1] = W_the
  /\ Len(split(result[1])) = 3

====
